---------------------------- MODULE Spec2Model ----------------------------
(***************************************************************************)
(* The ESP32 programmer protocol decoder of esp32/pd.py: a SLIP frame      *)
(* decoder (SlipDecoder), the bootloader header decoder that sits on its   *)
(* callbacks (BootloaderProtocolDecoder) and the sigrok decoder that       *)
(* routes UART packets to one instance per direction (Decoder).            *)
(*                                                                         *)
(* Python integers are unbounded; the 32-bit checksum does not fit the     *)
(* model checker's integers, so an integer the code accumulates is kept as *)
(* its little-endian base-256 digits, with no leading zero digit.          *)
(***************************************************************************)
EXTENDS Integers, Sequences, FiniteSets, TLC

VARIABLES
    pmDecoder,  \* Decoder.pmDecoder: the BootloaderProtocolDecoder "pm"
    mpDecoder,  \* Decoder.mpDecoder: the BootloaderProtocolDecoder "mp"
    options,    \* Decoder.options: pm_channel and mp_channel
    out,        \* the annotations handed to Decoder.put, in order
    raised,     \* TRUE once a handler has raised a Python exception
    log,        \* history: the SlipDecoder callbacks made, per direction
    stream,     \* history: the packets handed to Decoder.decode so far
    plan        \* environment: the bytes each physical channel will carry

vars == <<pmDecoder, mpDecoder, options, out, raised, log, stream, plan>>

---------------------------------------------------------------------------
(* Bounds of the exploration.                                              *)

\* packets of a run of the unconstrained environment
MaxEvents == 4
\* payload bytes of a frame of the framing runs
MaxPayload == 4
\* data bytes after the 8 header bytes of a frame of the header runs
MaxData == 1
\* data bytes after the 8 header bytes of a frame of the fresh-frame runs
MaxTail == 2

---------------------------------------------------------------------------
(* Module-level constants of pd.py.                                        *)

RX == 0
TX == 1
rxtx_channels == <<"RX", "TX">>

\* the SLIP bytes SlipDecoder.decode compares against
END == 192
ESC == 219
ESC_END == 220
ESC_ESC == 221

commandTable ==
    (2 :> [Name |-> "FLASH_BEGIN",
            Description |-> "Begin Flash Download",
            Input |-> "Four 32-bit words: size to erase, number of data packets, data size in one packet, flash offset. A fifth 32-bit word passed to ROM loader only: 1 to begin encrypted flash, 0 to not."]) @@
    (3 :> [Name |-> "FLASH_DATA",
            Description |-> "Flash Download Data",
            Input |-> "Four 32-bit words: data size, sequence number, 0, 0, then data. Uses Checksum."]) @@
    (4 :> [Name |-> "FLASH_END",
            Description |-> "Finish Flash Download",
            Input |-> "One 32-bit word: 0 to reboot, 1 to run user code. Not necessary to send this command if you wish to stay in the loader"]) @@
    (5 :> [Name |-> "MEM_BEGIN",
            Description |-> "Begin RAM Download Start",
            Input |-> "Total size, number of data packets, data size in one packet, memory offset"]) @@
    (6 :> [Name |-> "MEM_END",
            Description |-> "Finish RAM Download",
            Input |-> "Two 32-bit words: execute flag, entry point address"]) @@
    (7 :> [Name |-> "MEM_DATA",
            Description |-> "RAM Download Data",
            Input |-> "Four 32-bit words: data size, sequence number, 0, 0, then data. Uses Checksum."]) @@
    (8 :> [Name |-> "SYNC",
            Description |-> "Sync Frame",
            Input |-> "36 bytes: 0x07 0x07 0x12 0x20, followed by 32 x 0x55"]) @@
    (9 :> [Name |-> "WRITE_REG",
            Description |-> "Write 32-bit memory address",
            Input |-> "Four 32-bit words: address, value, mask and delay (in microseconds)"]) @@
    (10 :> [Name |-> "READ_REG",
            Description |-> "Read 32-bit memory address",
            Input |-> "Address as 32-bit word\n\nRead data as 32-bit word in value field."]) @@
    (11 :> [Name |-> "SPI_SET_PARAMS",
            Description |-> "Configure SPI flash",
            Input |-> "Six 32-bit words: id, total size in bytes, block size, sector size, page size, status mask."]) @@
    (13 :> [Name |-> "SPI_ATTACH",
            Description |-> "Attach SPI flash",
            Input |-> "32-bit word: Zero for normal SPI flash. A second 32-bit word (should be 0) is passed to ROM loader only."]) @@
    (15 :> [Name |-> "CHANGE_BAUDRATE",
            Description |-> "Change Baud rate",
            Input |-> "Two 32-bit words: new baud rate, 0 if we are talking to the ROM loader or the current/old baud rate if we are talking to the stub loader."]) @@
    (16 :> [Name |-> "FLASH_DEFL_BEGIN",
            Description |-> "Begin compressed flash download",
            Input |-> "Four 32-bit words: uncompressed size, number of data packets, data packet size, flash offset. With stub loader the uncompressed size is exact byte count to be written, whereas on ROM bootloader it is rounded up to flash erase block size. A fifth 32-bit word passed to ROM loader only: 1 to begin encrypted flash, 0 to not."]) @@
    (17 :> [Name |-> "FLASH_DEFL_DATA",
            Description |-> "Compressed flash download data",
            Input |-> "Four 32-bit words: data size, sequence number, 0, 0, then data. Uses Checksum.\n\nError code 0xC1 on checksum error."]) @@
    (18 :> [Name |-> "FLASH_DEFL_END",
            Description |-> "End compressed flash download",
            Input |-> "One 32-bit word: 0 to reboot, 1 to run user code. Not necessary to send this command if you wish to stay in the loader."]) @@
    (19 :> [Name |-> "SPI_FLASH_MD5",
            Description |-> "Calculate MD5 of flash region",
            Input |-> "Four 32-bit words: address, size, 0, 0\n\nBody contains 16 raw bytes of MD5 followed by 2 status bytes (stub loader) or 32 hex-coded ASCII (ROM loader) of calculated MD5"]) @@
    (20 :> [Name |-> "GET_SECURITY_INFO",
            Description |-> "Read chip security info",
            Input |-> "32 bits flags, 1 byte flash_crypt_cnt, 7x1 byte key_purposes, 32-bit word chip_id, 32-bit word eco_version"]) @@
    (208 :> [Name |-> "ERASE_FLASH (stub loader))",
            Description |-> "Erase entire flash chip",
            Input |-> ""]) @@
    (209 :> [Name |-> "ERASE_REGION (stub loader)",
            Description |-> "Erase flash region",
            Input |-> "Two 32-bit words: flash offset to erase, erase size in bytes. Both must be multiples of flash sector size."]) @@
    (210 :> [Name |-> "READ_FLASH (stub loader)",
            Description |-> "Read flash",
            Input |-> "Four 32-bit words: flash offset, read length, flash sector size, read packet size, maximum number of un-acked packets"]) @@
    (211 :> [Name |-> "RUN_USER_CODE (stub loader)",
            Description |-> "Exits loader and runs user code",
            Input |-> ""])
\* Decoder.annotations: the annotation classes, in index order
annotations ==
    << <<"pm-dir", "PM Direction">>, <<"pm-cmd", "PM Command">>,
       <<"pm-size", "PM Size">>, <<"pm-checksum", "PM Checksum">>,
       <<"pm-data", "PM Data">>, <<"pm-error", "PM Error">>,
       <<"mp-dir", "MP Direction">>, <<"mp-cmd", "MP Command">>,
       <<"mp-size", "MP Size">>, <<"mp-value", "MP Value">>,
       <<"mp-data", "MP Data">>, <<"mp-error", "MP Error">> >>

---------------------------------------------------------------------------
(* Python integer arithmetic and "%0Nx" formatting.                        *)

RECURSIVE PyInt(_)
\* the digits of a natural number n
PyInt(n) == IF n = 0 THEN <<>> ELSE <<n % 256>> \o PyInt(n \div 256)

RECURSIVE AddCarry(_, _, _)
AddCarry(a, b, carry) ==
    IF a = <<>> /\ b = <<>>
    THEN IF carry = 0 THEN <<>> ELSE <<carry>>
    ELSE LET x == IF a = <<>> THEN 0 ELSE Head(a)
             y == IF b = <<>> THEN 0 ELSE Head(b)
             s == x + y + carry
         IN  <<s % 256>> \o AddCarry(IF a = <<>> THEN a ELSE Tail(a),
                                     IF b = <<>> THEN b ELSE Tail(b),
                                     s \div 256)

\* a + b
Add(a, b) == AddCarry(a, b, 0)

\* value << bits, for a byte value and a shift of whole bytes
ShiftLeft(value, bits) ==
    IF value = 0 THEN <<>>
    ELSE [i \in 1..(bits \div 8) |-> 0] \o PyInt(value)

HexDigits ==
    <<"0", "1", "2", "3", "4", "5", "6", "7",
      "8", "9", "a", "b", "c", "d", "e", "f">>

Hex2(b) == HexDigits[(b \div 16) + 1] \o HexDigits[(b % 16) + 1]

RECURSIVE HexTail(_, _)
\* the digits a[1..n], most significant first, two characters each
HexTail(a, n) == IF n = 0 THEN "" ELSE Hex2(a[n]) \o HexTail(a, n - 1)

RECURSIVE Zeros(_)
Zeros(n) == IF n <= 0 THEN "" ELSE "0" \o Zeros(n - 1)

\* "%0<width>x" % a: lower-case hex, no prefix, zero-padded to width
FormatHex(a, width) ==
    LET n == Len(a)
        top == IF n = 0 THEN "0"
               ELSE IF a[n] < 16 THEN HexDigits[a[n] + 1] ELSE Hex2(a[n])
        nd == IF n = 0 THEN 1 ELSE 2 * n - (IF a[n] < 16 THEN 1 ELSE 0)
    IN  Zeros(width - nd) \o top \o (IF n = 0 THEN "" ELSE HexTail(a, n - 1))

---------------------------------------------------------------------------
(* A call into a decoder instance works on a context                       *)
(*   [self |-> the instance, out |-> the annotations put so far,           *)
(*    log |-> the callbacks made so far, raised |-> an exception escaped]  *)
(* and gives the context the call leaves behind.                           *)

\* a constructor that leaves the new decoder inside a frame
BootloaderProtocolDecoderInFrame(direction) ==
    [direction |-> direction,
     slipStatus |-> "in_frame",
     slipEscStart |-> 0,
     status |-> "cmd",
     lastStatus |-> "",
     segmentStart |-> 0,
     count |-> 0,
     acc |-> <<>>,
     lastCmd |-> <<>>,
     assigned |-> {}]

\* SlipDecoder.__init__ and BootloaderProtocolDecoder.__init__; the
\* attributes onData and onFrameStart assign later do not exist yet
\* (assigned lists the ones that do; reading another one raises)
BootloaderProtocolDecoder(direction) ==
    [direction |-> direction,
     slipStatus |-> "idle",
     slipEscStart |-> 0,
     status |-> "cmd",
     lastStatus |-> "",
     segmentStart |-> 0,
     count |-> 0,
     acc |-> <<>>,
     lastCmd |-> <<>>,
     assigned |-> {}]

\* an exception leaves the handler
Raise(c) == [c EXCEPT !.raised = TRUE]

\* Decoder.puta: the class index of ann_str, then Decoder.put; message is
\* the list put (puta wraps a plain string into a one-element list);
\* list.index raises ValueError for a class that is not declared
puta(c, start, end, ann_str, message) ==
    LET found == {i \in 1..Len(annotations) : annotations[i][1] = ann_str}
    IN  IF found = {} THEN Raise(c)
        ELSE [c EXCEPT !.out = Append(@,
                 [ss |-> start, es |-> end,
                  ann |-> (CHOOSE i \in found : \A j \in found : i <= j) - 1,
                  message |-> message])]

\* Decoder.annotation_rows: the class indexes of each direction's row
annotation_rows ==
    << <<"pm", "Programmer->module", <<0, 1, 2, 3, 4, 5>> >>,
       <<"mp", "Module->programmer", <<6, 7, 8, 9, 10, 11>> >> >>

\* the annotations of o that lie in the row of direction
RowOf(o, direction) ==
    SelectSeq(o, LAMBDA a :
        \E r \in 1..Len(annotation_rows) :
            /\ annotation_rows[r][1] = direction
            /\ \E k \in 1..Len(annotation_rows[r][3]) :
                   annotation_rows[r][3][k] = a.ann)

\* history of the callbacks SlipDecoder.decode makes: the callback, its
\* arguments, and how many annotations its direction had put before it
Called(c, call, ss, es, value, message) ==
    [c EXCEPT !.log = Append(@,
        [call |-> call, ss |-> ss, es |-> es,
         value |-> value, message |-> message,
         nout |-> Len(RowOf(c.out, c.self.direction))])]

\* FieldDir that stays in the direction field after an invalid byte
FieldDirStay(c, ss, es, value) ==
    LET c1 == [c EXCEPT !.self.status = "cmd"]
        dir == c.self.direction
    IN  IF value = 0
        THEN puta(c1, ss, es, dir \o "-dir", <<"DIR: " \o "REQ", "REQ">>)
        ELSE IF value = 1
        THEN puta(c1, ss, es, dir \o "-dir", <<"DIR: " \o "RES", "RES">>)
        ELSE puta(c, ss, es, dir \o "-error",
                  <<"Invalid direction: 0x" \o FormatHex(PyInt(value), 2)>>)

\* onData, status "dir"
FieldDir(c, ss, es, value) ==
    LET c1 == [c EXCEPT !.self.status = "cmd"]
        dir == c.self.direction
    IN  IF value = 0
        THEN puta(c1, ss, es, dir \o "-dir", <<"DIR: " \o "REQ", "REQ">>)
        ELSE IF value = 1
        THEN puta(c1, ss, es, dir \o "-dir", <<"DIR: " \o "RES", "RES">>)
        ELSE puta(c1, ss, es, dir \o "-error",
                  <<"Invalid direction: 0x" \o FormatHex(PyInt(value), 2)>>)

\* onData, status "cmd"
FieldCmd(c, ss, es, value) ==
    LET c1 == [c EXCEPT !.self.status = "size"]
        dir == c.self.direction
    IN  IF value \in DOMAIN commandTable
        THEN LET cmd == commandTable[value]
                 c2 == [c1 EXCEPT !.self.lastCmd = <<value>>,
                                  !.self.assigned = @ \cup {"lastCmd"}]
             IN  puta(c2, ss, es, dir \o "-cmd",
                      <<"CMD: " \o cmd.Name, cmd.Name>>)
        ELSE puta(c1, ss, es, dir \o "-error",
                  <<"Invalid command: 0x" \o FormatHex(PyInt(value), 2)>>)

\* FieldSize that takes the field as complete at its first byte
FieldSizeFirstByte(c, ss, es, value) ==
    LET d == c.self
        acc == Add(d.acc, ShiftLeft(value, 8 * d.count))
        c1 == [c EXCEPT !.self.acc = acc]
    IN  IF d.count = 0
        THEN puta([c1 EXCEPT !.self.status = "checksum"],
                  d.segmentStart, es, d.direction \o "-size",
                  <<"Size: 0x" \o FormatHex(acc, 4), "0x" \o FormatHex(acc, 4)>>)
        ELSE c1

\* onData, status "size"
FieldSize(c, ss, es, value) ==
    LET d == c.self
        acc == Add(d.acc, ShiftLeft(value, 8 * d.count))
        c1 == [c EXCEPT !.self.acc = acc]
    IN  IF d.count = 1
        THEN puta([c1 EXCEPT !.self.status = "checksum"],
                  d.segmentStart, es, d.direction \o "-size",
                  <<"Size: 0x" \o FormatHex(acc, 4), "0x" \o FormatHex(acc, 4)>>)
        ELSE c1

\* FieldChecksum with the value branch formatted like the size field
FieldChecksumShortValue(c, ss, es, value) ==
    LET d == c.self
        acc == Add(d.acc, ShiftLeft(value, 8 * d.count))
        c1 == [c EXCEPT !.self.acc = acc]
        c2 == [c1 EXCEPT !.self.status = "data"]
    IN  IF d.count = 3
        THEN IF d.direction = "pm"
             THEN puta(c2, d.segmentStart, es, d.direction \o "-checksum",
                       <<"Checksum: 0x" \o FormatHex(acc, 8),
                         "0x" \o FormatHex(acc, 8)>>)
             ELSE puta(c2, d.segmentStart, es, d.direction \o "-value",
                       <<"Value: 0x" \o FormatHex(acc, 4),
                         "0x" \o FormatHex(acc, 4)>>)
        ELSE c1

\* onData, status "checksum"
FieldChecksum(c, ss, es, value) ==
    LET d == c.self
        acc == Add(d.acc, ShiftLeft(value, 8 * d.count))
        c1 == [c EXCEPT !.self.acc = acc]
        c2 == [c1 EXCEPT !.self.status = "data"]
    IN  IF d.count = 3
        THEN IF d.direction = "pm"
             THEN puta(c2, d.segmentStart, es, d.direction \o "-checksum",
                       <<"Checksum: 0x" \o FormatHex(acc, 8),
                         "0x" \o FormatHex(acc, 8)>>)
             ELSE puta(c2, d.segmentStart, es, d.direction \o "-value",
                       <<"Value: 0x" \o FormatHex(acc, 8),
                         "0x" \o FormatHex(acc, 8)>>)
        ELSE c1

\* FieldEnter that records the start offset at every byte
FieldEnterEveryByte(c, ss) ==
    LET d == c.self
    IN  IF d.status # d.lastStatus
        THEN [c EXCEPT !.self.segmentStart = ss,
                       !.self.count = 0,
                       !.self.acc = <<>>,
                       !.self.lastStatus = d.status,
                       !.self.assigned = @ \cup {"segmentStart", "count", "acc"}]
        ELSE IF "count" \in d.assigned
        THEN [c EXCEPT !.self.count = @ + 1, !.self.segmentStart = ss]
        ELSE Raise(c)

\* FieldEnter with the accumulator left as the last field had it
FieldEnterKeepAcc(c, ss) ==
    LET d == c.self
    IN  IF d.status # d.lastStatus
        THEN [c EXCEPT !.self.segmentStart = ss,
                       !.self.count = 0,
                       !.self.lastStatus = d.status,
                       !.self.assigned = @ \cup {"segmentStart", "count", "acc"}]
        ELSE IF "count" \in d.assigned
        THEN [c EXCEPT !.self.count = @ + 1]
        ELSE Raise(c)

\* onData, the bookkeeping at its head: a field's first byte records where
\* the field starts and clears count and acc, a later byte counts on
FieldEnter(c, ss) ==
    LET d == c.self
    IN  IF d.status # d.lastStatus
        THEN [c EXCEPT !.self.segmentStart = ss,
                       !.self.count = 0,
                       !.self.acc = <<>>,
                       !.self.lastStatus = d.status,
                       !.self.assigned = @ \cup {"segmentStart", "count", "acc"}]
        ELSE IF "count" \in d.assigned
        THEN [c EXCEPT !.self.count = @ + 1]
        ELSE Raise(c)

\* BootloaderProtocolDecoder.onData
onData(c, ss, es, value) ==
    LET c1 == FieldEnter(c, ss)
        status == c1.self.status
    IN  IF c1.raised THEN c1
        ELSE IF status = "dir" THEN FieldDir(c1, ss, es, value)
        ELSE IF status = "cmd" THEN FieldCmd(c1, ss, es, value)
        ELSE IF status = "size" THEN FieldSize(c1, ss, es, value)
        ELSE IF status = "checksum" THEN FieldChecksum(c1, ss, es, value)
        ELSE c1

\* onFrameStart that keeps the field state of the frame before
onFrameStartKeepStatus(c, ss, es) ==
    [c EXCEPT !.self.lastStatus = "",
              !.self.lastCmd = <<>>,
              !.self.assigned = @ \cup {"lastCmd"}]

\* onFrameStart that keeps the descriptor of the frame before
onFrameStartKeepCmd(c, ss, es) ==
    [c EXCEPT !.self.status = "dir",
              !.self.lastStatus = "",
              !.self.assigned = @ \cup {"lastCmd"}]

\* BootloaderProtocolDecoder.onFrameStart
onFrameStart(c, ss, es) ==
    [c EXCEPT !.self.status = "dir",
              !.self.lastStatus = "",
              !.self.lastCmd = <<>>,
              !.self.assigned = @ \cup {"lastCmd"}]

\* onFrameEnd that labels the data with the command's description
onFrameEndDescription(c, ss, es) ==
    LET d == c.self
    IN  IF d.status = "data"
        THEN IF ~ ({"lastCmd", "segmentStart"} \subseteq d.assigned)
             THEN Raise(c)
             ELSE IF d.lastCmd # <<>>
             THEN puta(c, d.segmentStart, ss, d.direction \o "-data",
                       <<"Data: " \o commandTable[d.lastCmd[1]].Description,
                         "Data">>)
             ELSE puta(c, d.segmentStart, ss, d.direction \o "-data", <<"Data">>)
        ELSE c

\* onFrameEnd without the test of the field the frame has reached
onFrameEndAnyStatus(c, ss, es) ==
    LET d == c.self
    IN  IF ~ ({"lastCmd", "segmentStart"} \subseteq d.assigned)
        THEN Raise(c)
        ELSE IF d.lastCmd # <<>>
        THEN puta(c, d.segmentStart, ss, d.direction \o "-data",
                  <<"Data: " \o commandTable[d.lastCmd[1]].Input, "Data">>)
        ELSE puta(c, d.segmentStart, ss, d.direction \o "-data", <<"Data">>)

\* BootloaderProtocolDecoder.onFrameEnd
onFrameEnd(c, ss, es) ==
    LET d == c.self
    IN  IF d.status = "data"
        THEN IF ~ ({"lastCmd", "segmentStart"} \subseteq d.assigned)
             THEN Raise(c)
             ELSE IF d.lastCmd # <<>>
             THEN puta(c, d.segmentStart, ss, d.direction \o "-data",
                       <<"Data: " \o commandTable[d.lastCmd[1]].Input, "Data">>)
             ELSE puta(c, d.segmentStart, ss, d.direction \o "-data", <<"Data">>)
        ELSE c

\* BootloaderProtocolDecoder.onError: the override does nothing
onError(c, ss, es, message) == c

\* SlipDecoder.decode, slipStatus "idle"
SlipIdle(c, ss, es, value) ==
    IF value = END
    THEN [onFrameStart(Called(c, "onFrameStart", ss, es, 0, ""), ss, es)
             EXCEPT !.self.slipStatus = "in_frame"]
    ELSE LET message == "Unexpected value: 0x" \o FormatHex(PyInt(value), 2)
         IN  onError(Called(c, "onError", ss, es, 0, message), ss, es, message)

\* SlipInFrame that does not record where the escape marker starts
SlipInFrameNoEscStart(c, ss, es, value) ==
    IF value = END
    THEN [onFrameEnd(Called(c, "onFrameEnd", ss, es, 0, ""), ss, es)
             EXCEPT !.self.slipStatus = "idle"]
    ELSE IF value = ESC
    THEN [c EXCEPT !.self.slipStatus = "escape"]
    ELSE onData(Called(c, "onData", ss, es, value, ""), ss, es, value)

\* SlipDecoder.decode, slipStatus "in_frame"
SlipInFrame(c, ss, es, value) ==
    IF value = END
    THEN [onFrameEnd(Called(c, "onFrameEnd", ss, es, 0, ""), ss, es)
             EXCEPT !.self.slipStatus = "idle"]
    ELSE IF value = ESC
    THEN [c EXCEPT !.self.slipStatus = "escape", !.self.slipEscStart = ss]
    ELSE onData(Called(c, "onData", ss, es, value, ""), ss, es, value)

\* SlipEscape that takes a delimiter after the escape marker as the end
\* of the frame
SlipEscapeEndsFrame(c, ss, es, value) ==
    LET start == c.self.slipEscStart
        message == "Unexpected escape value: 0x" \o FormatHex(PyInt(value), 2)
    IN  IF value = END
        THEN [onFrameEnd(Called(c, "onFrameEnd", ss, es, 0, ""), ss, es)
                 EXCEPT !.self.slipStatus = "idle"]
        ELSE [(IF value = ESC_END
               THEN onData(Called(c, "onData", start, es, END, ""), start, es, END)
               ELSE IF value = ESC_ESC
               THEN onData(Called(c, "onData", start, es, ESC, ""), start, es, ESC)
               ELSE onError(Called(c, "onError", start, es, 0, message),
                            start, es, message))
                 EXCEPT !.self.slipStatus = "in_frame"]

\* SlipEscape with the two escape codes decoded to the same byte
SlipEscapeSameByte(c, ss, es, value) ==
    LET start == c.self.slipEscStart
        message == "Unexpected escape value: 0x" \o FormatHex(PyInt(value), 2)
        c1 == IF value = ESC_END \/ value = ESC_ESC
              THEN onData(Called(c, "onData", start, es, END, ""), start, es, END)
              ELSE onError(Called(c, "onError", start, es, 0, message),
                           start, es, message)
    IN  [c1 EXCEPT !.self.slipStatus = "in_frame"]

\* SlipDecoder.decode, slipStatus "escape"
SlipEscape(c, ss, es, value) ==
    LET start == c.self.slipEscStart
        message == "Unexpected escape value: 0x" \o FormatHex(PyInt(value), 2)
        c1 == IF value = ESC_END
              THEN onData(Called(c, "onData", start, es, END, ""), start, es, END)
              ELSE IF value = ESC_ESC
              THEN onData(Called(c, "onData", start, es, ESC, ""), start, es, ESC)
              ELSE onError(Called(c, "onError", start, es, 0, message),
                           start, es, message)
    IN  [c1 EXCEPT !.self.slipStatus = "in_frame"]

\* SlipDecoder.decode; an exception in a callback leaves the method before
\* the assignment to slipStatus that follows the call
SlipDecoderDecode(c, ss, es, value) ==
    LET c1 == IF c.self.slipStatus = "idle" THEN SlipIdle(c, ss, es, value)
              ELSE IF c.self.slipStatus = "in_frame" THEN SlipInFrame(c, ss, es, value)
              ELSE IF c.self.slipStatus = "escape" THEN SlipEscape(c, ss, es, value)
              ELSE c
    IN  IF c1.raised THEN [c1 EXCEPT !.self.slipStatus = c.self.slipStatus]
        ELSE c1

---------------------------------------------------------------------------
(* The sigrok decoder object.                                              *)

\* Decoder.__init__ -> Decoder.reset: two instances of their own
reset ==
    /\ pmDecoder = BootloaderProtocolDecoder("pm")
    /\ mpDecoder = BootloaderProtocolDecoder("mp")
    /\ out = <<>>
    /\ raised = FALSE

\* the values of the options pm_channel and mp_channel
Options ==
    [pm_channel : {rxtx_channels[i] : i \in 1..Len(rxtx_channels)},
     mp_channel : {rxtx_channels[i] : i \in 1..Len(rxtx_channels)}]

\* the context of a call into one instance
Context(self, o, l) == [self |-> self, out |-> o, log |-> l, raised |-> FALSE]

\* Routed without the comparison of the packet's channel
RoutedAnyChannel(e, channel) == e.ptype = "FRAME"

\* Decoder.decode, the routing: whether packet e goes to the instance
\* configured for channel
Routed(e, channel) ==
    e.ptype = "FRAME" /\ rxtx_channels[e.rxtx + 1] = channel

\* decode that hands a packet to the mp decoder only when the pm decoder
\* did not take it
decodeElif(e) ==
    /\ ~raised
    /\ LET c0 == Context(pmDecoder, out, log.pm)
           c1 == IF Routed(e, options.pm_channel)
                 THEN SlipDecoderDecode(c0, e.ss, e.es, e.value)
                 ELSE c0
           m0 == Context(mpDecoder, c1.out, log.mp)
           m1 == IF /\ ~c1.raised
                    /\ ~Routed(e, options.pm_channel)
                    /\ Routed(e, options.mp_channel)
                 THEN SlipDecoderDecode(m0, e.ss, e.es, e.value)
                 ELSE m0
       IN  /\ pmDecoder' = c1.self
           /\ mpDecoder' = m1.self
           /\ out' = m1.out
           /\ log' = [pm |-> c1.log, mp |-> m1.log]
           /\ raised' = (c1.raised \/ m1.raised)
    /\ stream' = Append(stream, e)
    /\ UNCHANGED <<options, plan>>

\* Decoder.decode(ss, es, data) for the UART packet e; the method unpacks
\* the packet's validity flag and does not read it
decode(e) ==
    /\ ~raised
    /\ LET c0 == Context(pmDecoder, out, log.pm)
           c1 == IF Routed(e, options.pm_channel)
                 THEN SlipDecoderDecode(c0, e.ss, e.es, e.value)
                 ELSE c0
           m0 == Context(mpDecoder, c1.out, log.mp)
           m1 == IF ~c1.raised /\ Routed(e, options.mp_channel)
                 THEN SlipDecoderDecode(m0, e.ss, e.es, e.value)
                 ELSE m0
       IN  /\ pmDecoder' = c1.self
           /\ mpDecoder' = m1.self
           /\ out' = m1.out
           /\ log' = [pm |-> c1.log, mp |-> m1.log]
           /\ raised' = (c1.raised \/ m1.raised)
    /\ stream' = Append(stream, e)
    /\ UNCHANGED <<options, plan>>

---------------------------------------------------------------------------
(* The environment: the UART decoder below, which hands over one packet    *)
(* at a time with its sample range.                                        *)

\* the k-th packet of a run; packets do not overlap in time
Packet(k, ptype, rxtx, value, valid) ==
    [ss |-> 10 * k, es |-> 10 * k + 9,
     ptype |-> ptype, rxtx |-> rxtx, value |-> value, valid |-> valid]

\* the packets of stream on channel rxtx
OnChannel(rxtx) == SelectSeq(stream, LAMBDA e : e.rxtx = rxtx)

\* SLIP encoding of one byte and of a payload, and a delimited frame
SlipByte(b) ==
    IF b = END THEN <<ESC, ESC_END>>
    ELSE IF b = ESC THEN <<ESC, ESC_ESC>>
    ELSE <<b>>

RECURSIVE SlipEncode(_)
SlipEncode(p) == IF p = <<>> THEN <<>> ELSE SlipByte(Head(p)) \o SlipEncode(Tail(p))

Frame(p) == <<END>> \o SlipEncode(p) \o <<END>>

RECURSIVE SeqsUpTo(_, _)
\* the sequences over S of length at most n
SeqsUpTo(S, n) ==
    IF n = 0 THEN {<<>>}
    ELSE LET shorter == SeqsUpTo(S, n - 1)
         IN  shorter \cup {Append(s, b) : s \in {t \in shorter : Len(t) = n - 1}, b \in S}

\* the next planned byte of some channel arrives, as a valid FRAME packet
FeedPlanned ==
    \E rxtx \in {RX, TX} :
        LET k == Len(OnChannel(rxtx))
        IN  /\ k < Len(plan[rxtx + 1])
            /\ decode(Packet(Len(stream) + 1, "FRAME", rxtx,
                             plan[rxtx + 1][k + 1], TRUE))

\* the packets of the unconstrained environment: FRAME packets of either
\* channel, valid or not, and the UART decoder's other packet types
AnyPackets ==
    [ptype : {"FRAME"}, rxtx : {RX},
     value : {0, END, ESC, ESC_END, ESC_ESC}, valid : {TRUE}]
    \cup [ptype : {"FRAME"}, rxtx : {TX}, value : {0, END}, valid : {TRUE}]
    \cup [ptype : {"FRAME"}, rxtx : {RX}, value : {END}, valid : {FALSE}]
    \cup [ptype : {"DATA"}, rxtx : {RX}, value : {END}, valid : {TRUE}]

\* any packet arrives
FeedAny ==
    /\ Len(stream) < MaxEvents
    /\ \E p \in AnyPackets :
           decode(Packet(Len(stream) + 1, p.ptype, p.rxtx, p.value, p.valid))

InitHistory == log = [pm |-> <<>>, mp |-> <<>>] /\ stream = <<>>

\* any packets, any configuration
Init ==
    /\ reset
    /\ InitHistory
    /\ options \in Options
    /\ plan = << <<>>, <<>> >>

Next == FeedAny

Spec == Init /\ [][Next]_vars

\* one delimited frame on RX holding an escaped payload
SlipPayloadBytes == {65, END, ESC, ESC_END}

InitSlip ==
    /\ reset
    /\ InitHistory
    /\ options \in Options
    /\ \E p \in SeqsUpTo(SlipPayloadBytes, MaxPayload) : plan = <<Frame(p), <<>> >>

NextSlip == FeedPlanned

SpecSlip == InitSlip /\ [][NextSlip]_vars

\* header frames on RX: a frame of up to 8 header bytes and MaxData data
\* bytes, each byte from the values of its position, after nothing, a
\* truncated frame or a frame with a framing error
HeaderByteSets ==
    << {0, 1, 2}, {2, 255}, {5, END}, {0, 255},
       {170, ESC}, {187}, {204, 0}, {221, 0} >>
DataBytes == {17}

RECURSIVE HeaderPayloads(_)
\* the payloads of exactly n bytes
HeaderPayloads(n) ==
    IF n = 0 THEN {<<>>}
    ELSE {Append(s, b) : s \in HeaderPayloads(n - 1),
                         b \in IF n <= Len(HeaderByteSets)
                               THEN HeaderByteSets[n] ELSE DataBytes}

Preludes ==
    { <<>>,
      <<END, 0, 2, 5, END>>,
      <<END, 0, 2, 5, 0, 170, 187, END>>,
      <<END, 0, ESC, 65, END>>,
      <<END, ESC, END>> }

InitHeader ==
    /\ reset
    /\ InitHistory
    /\ options \in {o \in Options : o.pm_channel = rxtx_channels[RX + 1]}
    /\ \E n \in 0..(Len(HeaderByteSets) + MaxData) :
       \E p \in HeaderPayloads(n) :
       \E pre \in Preludes : plan = <<pre \o Frame(p), <<>> >>

NextHeader == FeedPlanned

SpecHeader == InitHeader /\ [][NextHeader]_vars

\* two frames at once: RX and TX each carry bytes of their own, handed
\* over in any interleaving, each channel mapped to one direction
InterleavePlans ==
    { <<END, 0, 2, 5, 0, END>>,
      <<END, 1, ESC, ESC_END, 255>>,
      <<0, END, 2, END>> }

InitInterleave ==
    /\ reset
    /\ InitHistory
    /\ options \in {o \in Options : o.pm_channel # o.mp_channel}
    /\ \E a \in InterleavePlans : \E b \in InterleavePlans : plan = <<a, b>>

NextInterleave == FeedPlanned

SpecInterleave == InitInterleave /\ [][NextInterleave]_vars

\* one frame after what earlier frames left behind: a frame cut at any
\* length, with up to MaxTail data bytes, after a prelude that ends in
\* every field state (a whole frame, cut frames, bytes between frames)
FreshHeaders ==
    { <<0, 2, 5, 0, 170, 187, 204, 221>>,
      <<1, 2, 5, 0, 170, 187, 204, 221>>,
      <<2, 255, END, 0, ESC, 187, 0, 0>> }

FreshData(n) == [k \in 1..n |-> IF k = 2 THEN END ELSE 17]

FreshPayloads ==
    {SubSeq(h \o FreshData(MaxTail), 1, n) :
         h \in FreshHeaders, n \in 0..(8 + MaxTail)}

FreshPreludes ==
    { <<>>,
      <<65>>,
      <<ESC, ESC_END>>,
      <<END, 1, END>>,
      <<END, 0, 2, 5, END>>,
      <<END, 0, 2, 5, 0, 170, 187, END>>,
      <<END, 0, 2, 5, 0, 170, 187, 204, 221, END, 65>>,
      <<END, 1, 255, 5, 0, 170, 187, 204, 221, 17, 17, END>>,
      <<END, ESC, END>> }

InitFresh ==
    /\ reset
    /\ InitHistory
    /\ options \in {o \in Options : o.pm_channel = rxtx_channels[RX + 1]}
    /\ \E pre \in FreshPreludes : \E p \in FreshPayloads :
           plan = <<pre \o Frame(p), <<>> >>

NextFresh == FeedPlanned

SpecFresh == InitFresh /\ [][NextFresh]_vars

\* both directions on one channel: that channel carries a frame, the
\* other channel a few bytes of its own, handed over in any interleaving
SharedPlans ==
    { <<END, 0, 2, 5, 0, 170, 187, 204, 221, 17, END>>,
      <<END, 1, ESC, ESC_END, 255, END, 0>>,
      <<0, END, 2, END>> }

OtherPlans == { <<END, 1>>, <<0, END, 2>> }

InitShared ==
    /\ reset
    /\ InitHistory
    /\ options \in {o \in Options : o.pm_channel = o.mp_channel}
    /\ \E a \in SharedPlans : \E b \in OtherPlans :
           plan = IF options.pm_channel = rxtx_channels[RX + 1]
                  THEN <<a, b>> ELSE <<b, a>>

NextShared == FeedPlanned

SpecShared == InitShared /\ [][NextShared]_vars

---------------------------------------------------------------------------
(* Reading the histories.                                                  *)

Directions == {"pm", "mp"}

\* the channel direction d listens on, and whether RX is that channel
ChannelOf(d) == IF d = "pm" THEN options.pm_channel ELSE options.mp_channel
ListensOnRX(d) == ChannelOf(d) = rxtx_channels[RX + 1]

DecoderOf(d) == IF d = "pm" THEN pmDecoder ELSE mpDecoder

\* every planned byte has been handed over
PlanDone == Len(stream) = Len(plan[1]) + Len(plan[2])

\* the callbacks of a log as (callback, value) pairs
Events(l) == [i \in 1..Len(l) |-> <<l[i].call, l[i].value>>]

\* the frames of direction d: the log indexes of its onFrameStart calls
FrameStarts(d) == {i \in 1..Len(log[d]) : log[d][i].call = "onFrameStart"}

\* the log index of the onFrameEnd of the frame started at i, or 0
FrameEndOf(d, i) ==
    LET later == {j \in (i + 1)..Len(log[d]) : log[d][j].call = "onFrameEnd"}
    IN  IF later = {} THEN 0 ELSE CHOOSE j \in later : \A k \in later : j <= k

\* the onData calls of the frame started at i, in order
FrameData(d, i) ==
    LET j == FrameEndOf(d, i)
    IN  SelectSeq(SubSeq(log[d], i + 1, IF j = 0 THEN Len(log[d]) ELSE j),
                  LAMBDA e : e.call = "onData")

\* the annotations direction d put from the onFrameStart at i up to its
\* next onFrameStart
FrameAnns(d, i) ==
    LET later == {j \in FrameStarts(d) : j > i}
        row == RowOf(out, d)
        last == IF later = {} THEN Len(row)
                ELSE log[d][CHOOSE j \in later : \A k \in later : j <= k].nout
    IN  SubSeq(row, log[d][i].nout + 1, last)

\* the class name of an annotation
AnnClass(a) == annotations[a.ann + 1][1]

---------------------------------------------------------------------------
(* C1: for every payload over SlipPayloadBytes (which holds 0xC0 and 0xDB), *)
(* a decoder that starts idle and is fed 0xC0, the SLIP-encoded payload and *)
(* 0xC0 has made exactly these callbacks once the last byte is in: one      *)
(* onFrameStart, one onData per payload byte with the original value in the *)
(* original order, one onFrameEnd, no onError; and it is idle again.        *)
C1_SlipRoundTrip ==
    PlanDone =>
        \A d \in {x \in Directions : ListensOnRX(x)} :
        \A p \in SeqsUpTo(SlipPayloadBytes, MaxPayload) :
            plan[1] = Frame(p) =>
                /\ Events(log[d]) =
                       <<<<"onFrameStart", 0>>>>
                       \o [i \in 1..Len(p) |-> <<"onData", p[i]>>]
                       \o <<<<"onFrameEnd", 0>>>>
                /\ DecoderOf(d).slipStatus = "idle"

\* a frame whose payload holds both reserved bytes has been decoded
C1_Witness ==
    /\ PlanDone
    /\ plan[1] = Frame(<<END, 65, ESC>>)
    /\ ListensOnRX("pm")
    /\ Len(log.pm) = 5
    /\ pmDecoder.slipStatus = "idle"

---------------------------------------------------------------------------
(* Header annotations as the frame's bytes determine them.                 *)

\* annotation a has this range, class and message
IsAnn(a, ss, es, class, message) ==
    /\ a.ss = ss
    /\ a.es = es
    /\ AnnClass(a) = class
    /\ a.message = message

\* the hex text of the 16-bit number b3 b2 and of the 32-bit b7 b6 b5 b4
SizeText(D) == "0x" \o Hex2(D[4].value) \o Hex2(D[3].value)
ChecksumText(D) ==
    "0x" \o Hex2(D[8].value) \o Hex2(D[7].value)
         \o Hex2(D[6].value) \o Hex2(D[5].value)

\* the size annotation of a frame with data calls D
IsSizeAnn(a, d, D) ==
    IsAnn(a, D[3].ss, D[4].es, d \o "-size",
          <<"Size: " \o SizeText(D), SizeText(D)>>)

\* the checksum (pm) or value (mp) annotation of a frame with data calls D
IsChecksumAnn(a, d, D) ==
    IF d = "pm"
    THEN IsAnn(a, D[5].ss, D[8].es, "pm-checksum",
               <<"Checksum: " \o ChecksumText(D), ChecksumText(D)>>)
    ELSE IsAnn(a, D[5].ss, D[8].es, "mp-value",
               <<"Value: " \o ChecksumText(D), ChecksumText(D)>>)

\* the frame started at log index i is the one being received
Receiving(d, i) ==
    /\ FrameEndOf(d, i) = 0
    /\ \A j \in FrameStarts(d) : j <= i

---------------------------------------------------------------------------
AllowedAt(d, k) ==
    IF k = 1 THEN {d \o "-dir", d \o "-error"}
    ELSE IF k = 2 THEN {d \o "-cmd", d \o "-error"}
    ELSE IF k = 3 THEN {d \o "-size"}
    ELSE IF k = 4 THEN {d \o "-checksum", d \o "-value"}
    ELSE IF k = 5 THEN {d \o "-data"}
    ELSE {}

ExampleHeader == <<0, 2, 5, 0, 170, 187, 204, 221>>

(* C2: within one frame (from an onFrameStart to the next one) a decoder    *)
(* puts at most five annotations, in the order direction, command, size,   *)
(* checksum/value, data, where an error annotation may stand for the       *)
(* direction or the command; and a frame of the pm decoder whose bytes     *)
(* start 00 02 05 00 AA BB CC DD gets "REQ", "FLASH_BEGIN", "0x0005",      *)
(* "0xddccbbaa" and, at its end, the data annotation that carries the      *)
(* payload description of opcode 0x02.                                     *)
C2_FieldOrder ==
    /\ \A d \in Directions : \A i \in FrameStarts(d) :
           LET A == FrameAnns(d, i)
           IN  \A k \in 1..Len(A) : AnnClass(A[k]) \in AllowedAt(d, k)
    /\ \A i \in FrameStarts("pm") :
           LET A == FrameAnns("pm", i)
               D == FrameData("pm", i)
           IN  (Len(D) >= 8 /\ [k \in 1..8 |-> D[k].value] = ExampleHeader) =>
                   /\ Len(A) >= 4
                   /\ AnnClass(A[1]) = "pm-dir" /\ A[1].message[2] = "REQ"
                   /\ AnnClass(A[2]) = "pm-cmd" /\ A[2].message[2] = "FLASH_BEGIN"
                   /\ AnnClass(A[3]) = "pm-size" /\ A[3].message[2] = "0x0005"
                   /\ AnnClass(A[4]) = "pm-checksum"
                   /\ A[4].message[2] = "0xddccbbaa"
                   /\ FrameEndOf("pm", i) # 0 =>
                          /\ Len(A) = 5
                          /\ AnnClass(A[5]) = "pm-data"
                          /\ A[5].message =
                                 <<"Data: " \o commandTable[2].Input, "Data">>

\* the example frame, with a data byte, has been decoded to its end
C2_Witness ==
    /\ PlanDone
    /\ plan[1] = Frame(ExampleHeader \o <<17>>)
    /\ Len(RowOf(out, "pm")) = 5
    /\ AnnClass(out[Len(out)]) \in {"pm-data", "mp-data"}

---------------------------------------------------------------------------
(* C3: in every frame the size annotation carries b2 + 256*b3 as four hex  *)
(* digits and spans from the start of b2 to the end of b3, and the         *)
(* checksum/value annotation carries b4 + 2^8*b5 + 2^16*b6 + 2^24*b7 as    *)
(* eight hex digits and spans from the start of b4 to the end of b7; after *)
(* the first byte of either field the accumulator holds that byte alone,   *)
(* whatever the field or the frame before left in it.                      *)
C3_FieldValues ==
    \A d \in Directions : \A i \in FrameStarts(d) :
        LET A == FrameAnns(d, i)
            D == FrameData(d, i)
        IN  /\ Len(D) >= 4 => Len(A) >= 3 /\ IsSizeAnn(A[3], d, D)
            /\ Len(D) >= 8 => Len(A) >= 4 /\ IsChecksumAnn(A[4], d, D)
            /\ (Receiving(d, i) /\ Len(D) \in {3, 5}) =>
                   /\ DecoderOf(d).acc = PyInt(D[Len(D)].value)
                   /\ DecoderOf(d).count = 0
                   /\ DecoderOf(d).segmentStart = D[Len(D)].ss

\* a frame with escaped header bytes, after a frame that broke off inside
\* the checksum field, has its value annotation
C3_Witness ==
    /\ PlanDone
    /\ plan[1] = <<END, 0, 2, 5, 0, 170, 187, END>>
                     \o Frame(<<1, 255, END, 255, ESC, 187, 0, 221>>)
    /\ ListensOnRX("mp")
    /\ \E k \in 1..Len(out) :
           out[k].message = <<"Value: 0xdd00bbdb", "0xdd00bbdb">>

---------------------------------------------------------------------------
SameField(p, m) ==
    \/ \E kind \in {"dir", "cmd", "size", "data", "error"} :
           /\ AnnClass(p) = "pm-" \o kind
           /\ AnnClass(m) = "mp-" \o kind
           /\ p.message = m.message
    \/ /\ AnnClass(p) = "pm-checksum"
       /\ AnnClass(m) = "mp-value"
       /\ p.message[2] = m.message[2]
       /\ p.message[1] = "Checksum: " \o p.message[2]
       /\ m.message[1] = "Value: " \o m.message[2]

(* C4: with both directions on one channel the pm and the mp decoder see   *)
(* the same bytes, and then their annotations agree one by one in range    *)
(* and message, the class differing in its direction prefix only, except   *)
(* for the fourth header field: "pm-checksum" with "Checksum: 0x..." on    *)
(* pm, "mp-value" with "Value: 0x..." and the same hex text on mp.  Which  *)
(* of the two a decoder puts follows from its direction alone, whatever    *)
(* the frame's direction byte is.                                          *)
C4_DirectionsAgree ==
    /\ options.pm_channel = options.mp_channel =>
           LET P == RowOf(out, "pm")
               M == RowOf(out, "mp")
           IN  /\ Len(P) = Len(M)
               /\ \A k \in 1..Len(P) :
                      /\ P[k].ss = M[k].ss
                      /\ P[k].es = M[k].es
                      /\ SameField(P[k], M[k])
    /\ \A d \in Directions : \A i \in FrameStarts(d) :
           Len(FrameData(d, i)) >= 8 =>
               /\ Len(FrameAnns(d, i)) >= 4
               /\ AnnClass(FrameAnns(d, i)[4]) =
                      IF d = "pm" THEN "pm-checksum" ELSE "mp-value"

\* both decoders have decoded a whole frame that says it is a response
C4_Witness ==
    /\ PlanDone
    /\ options.pm_channel = options.mp_channel
    /\ plan[1] = Frame(<<1, 2, 5, 0, 170, 187, 0, 0, 17>>)
    /\ Len(RowOf(out, "pm")) = 5
    /\ Len(RowOf(out, "mp")) = 5

---------------------------------------------------------------------------
IsCommandAnn(a, d, e) ==
    IF e.value \in DOMAIN commandTable
    THEN IsAnn(a, e.ss, e.es, d \o "-cmd",
               <<"CMD: " \o commandTable[e.value].Name,
                 commandTable[e.value].Name>>)
    ELSE IsAnn(a, e.ss, e.es, d \o "-error",
               <<"Invalid command: 0x" \o Hex2(e.value)>>)

---------------------------------------------------------------------------
(* C6: a command byte that is no key of commandTable gets one error        *)
(* annotation over that byte; the decoder goes on to the size field and    *)
(* puts the size and the checksum/value annotation for the six bytes that  *)
(* follow; and the data annotation at the frame's end has the one label    *)
(* "Data", not a payload description, whatever the frames before held.     *)
C6_UnknownCommand ==
    \A d \in Directions : \A i \in FrameStarts(d) :
        LET A == FrameAnns(d, i)
            D == FrameData(d, i)
        IN  (Len(D) >= 2 /\ D[2].value \notin DOMAIN commandTable) =>
                /\ Len(A) >= 2
                /\ IsAnn(A[2], D[2].ss, D[2].es, d \o "-error",
                         <<"Invalid command: 0x" \o Hex2(D[2].value)>>)
                /\ \A k \in 3..Len(A) : AnnClass(A[k]) # d \o "-error"
                /\ (Receiving(d, i) /\ Len(D) = 2) => DecoderOf(d).status = "size"
                /\ Len(D) >= 4 => Len(A) >= 3 /\ IsSizeAnn(A[3], d, D)
                /\ Len(D) >= 8 => Len(A) >= 4 /\ IsChecksumAnn(A[4], d, D)
                /\ (Len(D) >= 8 /\ FrameEndOf(d, i) # 0) =>
                       /\ Len(A) = 5
                       /\ AnnClass(A[5]) = d \o "-data"
                       /\ A[5].message = <<"Data">>

\* a whole frame with opcode 0xFF, after a frame with a known opcode
C6_Witness ==
    /\ PlanDone
    /\ plan[1] = <<END, 0, 2, 5, END>>
                     \o Frame(<<0, 255, 5, 0, 170, 187, 204, 221, 17>>)
    /\ \E k \in 1..Len(out) :
           AnnClass(out[k]) = "pm-data" /\ out[k].message = <<"Data">>

---------------------------------------------------------------------------
(* A decoder on its own: a newly constructed instance of direction d fed   *)
(* the FRAME packets of a sequence, one after the other.                   *)

RECURSIVE Run(_, _)
Run(c, packets) ==
    IF packets = <<>> \/ c.raised THEN c
    ELSE Run(SlipDecoderDecode(c, Head(packets).ss, Head(packets).es,
                               Head(packets).value),
             Tail(packets))

Alone(d, packets) == Run(Context(BootloaderProtocolDecoder(d), <<>>, <<>>), packets)

---------------------------------------------------------------------------
(* C7: with the two directions on different channels, after every packet   *)
(* of every interleaving each direction's decoder is in the state, and has *)
(* made the callbacks and put the annotations, that a decoder on its own   *)
(* has after the packets of that direction's channel alone.                *)
C7_Independent ==
    \A d \in Directions :
        LET own == SelectSeq(stream,
                       LAMBDA e : rxtx_channels[e.rxtx + 1] = ChannelOf(d))
            alone == Alone(d, own)
        IN  /\ DecoderOf(d) = alone.self
            /\ RowOf(out, d) = alone.out
            /\ log[d] = alone.log

\* both decoders are inside a frame, their bytes having come in turns
C7_Witness ==
    /\ Len(stream) >= 6
    /\ \A k \in 1..5 : stream[k].rxtx # stream[k + 1].rxtx
    /\ pmDecoder.slipStatus = "in_frame" /\ pmDecoder.status = "size"
    /\ mpDecoder.slipStatus = "escape" /\ mpDecoder.status = "cmd"

---------------------------------------------------------------------------
(* C8: a packet whose validity flag is false is discarded: it changes no   *)
(* decoder's state, leads to no callback and puts no annotation.           *)
C8_InvalidDiscarded ==
    [][(Len(stream') > Len(stream) /\ ~stream'[Len(stream')].valid) =>
           /\ pmDecoder' = pmDecoder
           /\ mpDecoder' = mpDecoder
           /\ log' = log
           /\ out' = out]_vars

---------------------------------------------------------------------------
(* C9: every error a decoder detects is put as exactly one annotation of   *)
(* its direction's error class with the message that describes it: the     *)
(* two framing errors SlipDecoder.decode reports through onError, over the *)
(* range of the call, and the invalid direction and the unknown opcode.    *)
C9_ErrorsSurfaced ==
    \A d \in Directions :
        /\ \A j \in 1..Len(log[d]) :
               log[d][j].call = "onError" =>
                   Cardinality({k \in 1..Len(out) :
                       IsAnn(out[k], log[d][j].ss, log[d][j].es, d \o "-error",
                             <<log[d][j].message>>)}) = 1
        /\ \A i \in FrameStarts(d) :
               LET A == FrameAnns(d, i)
                   D == FrameData(d, i)
               IN  /\ (Len(D) >= 1 /\ D[1].value \notin {0, 1}) =>
                          /\ Len(A) >= 1
                          /\ IsAnn(A[1], D[1].ss, D[1].es, d \o "-error",
                                   <<"Invalid direction: 0x" \o Hex2(D[1].value)>>)
                   /\ (Len(D) >= 2 /\ D[2].value \notin DOMAIN commandTable) =>
                          /\ Len(A) >= 2
                          /\ IsAnn(A[2], D[2].ss, D[2].es, d \o "-error",
                                   <<"Invalid command: 0x" \o Hex2(D[2].value)>>)

---------------------------------------------------------------------------
\* 0xC0, bytes other than 0xC0, 0xC0
Delimited(s) ==
    /\ Len(s) >= 2
    /\ s[1] = END
    /\ s[Len(s)] = END
    /\ \A k \in 2..(Len(s) - 1) : s[k] # END

\* a delimited frame in which each 0xDB is followed by 0xDC or 0xDD
WellFormed(s) ==
    /\ Delimited(s)
    /\ \A k \in 2..(Len(s) - 1) :
           s[k] = ESC => s[k + 1] \in {ESC_END, ESC_ESC}

\* the callbacks of a log with their ranges and arguments
Calls(l) ==
    [j \in 1..Len(l) |->
        <<l[j].call, l[j].ss, l[j].es, l[j].value, l[j].message>>]

(* C10: after a delimited frame, malformed or not, a well-formed frame     *)
(* 0xC0 ... 0xC0 is decoded as a newly constructed decoder decodes it: the *)
(* same callbacks over the same ranges, the same annotations, and the     *)
(* decoder idle at its end.                                                *)
C10_ResumesCleanly ==
    \A d \in {x \in Directions : ListensOnRX(x)} :
    \A k \in 2..(Len(stream) - 2) :
        LET bytes == [j \in 1..Len(stream) |-> stream[j].value]
            rest == SubSeq(stream, k + 1, Len(stream))
            from == stream[k + 1].ss
            alone == Alone(d, rest)
        IN  (Delimited(SubSeq(bytes, 1, k))
                /\ WellFormed(SubSeq(bytes, k + 1, Len(stream)))) =>
                /\ Calls(SelectSeq(log[d], LAMBDA e : e.ss >= from))
                       = Calls(alone.log)
                /\ SelectSeq(RowOf(out, d), LAMBDA a : a.ss >= from) = alone.out
                /\ DecoderOf(d).slipStatus = "idle"

---------------------------------------------------------------------------
(* Reading one step: the packet it handed over and a decoder after it.     *)

LastPacket == stream'[Len(stream')]
DecoderAfter(d) == IF d = "pm" THEN pmDecoder' ELSE mpDecoder'

\* the step made exactly one more callback of direction d, and which
OneCall(d) == Len(log'[d]) = Len(log[d]) + 1
LastCall(d) == log'[d][Len(log'[d])]

\* onFrameStart and onFrameEnd take turns in a log, onFrameStart first
Alternates(l) ==
    LET F == SelectSeq(l, LAMBDA e : e.call \in {"onFrameStart", "onFrameEnd"})
    IN  \A k \in 1..Len(F) :
            F[k].call = IF k % 2 = 1 THEN "onFrameStart" ELSE "onFrameEnd"

\* every onData of a log lies after an onFrameStart with no onFrameEnd
\* between the two
DataInside(l) ==
    \A j \in 1..Len(l) :
        l[j].call = "onData" =>
            \E i \in 1..(j - 1) :
                /\ l[i].call = "onFrameStart"
                /\ \A m \in (i + 1)..j : l[m].call # "onFrameEnd"

(* C11: for every packet a decoder is handed: its onFrameStart and         *)
(* onFrameEnd calls alternate, onFrameStart first, and every onData lies   *)
(* between an onFrameStart and the next onFrameEnd; a byte other than 0xC0 *)
(* in idle makes one onError call and leaves the decoder idle; a 0xC0 in   *)
(* idle starts and a 0xC0 in in_frame ends a frame; and from escape every  *)
(* byte, 0xC0 too, leads to in_frame.                                      *)
C11_FramingStates ==
    [][\A d \in Directions :
          Routed(LastPacket, ChannelOf(d)) =>
              LET before == DecoderOf(d).slipStatus
                  after == DecoderAfter(d).slipStatus
                  value == LastPacket.value
              IN  /\ Alternates(log'[d])
                  /\ DataInside(log'[d])
                  /\ (before = "idle" /\ value # END) =>
                         after = "idle" /\ OneCall(d) /\ LastCall(d).call = "onError"
                  /\ (before = "idle" /\ value = END) =>
                         /\ after = "in_frame"
                         /\ OneCall(d) /\ LastCall(d).call = "onFrameStart"
                  /\ (before = "in_frame" /\ value = END) =>
                         after = "idle" /\ OneCall(d) /\ LastCall(d).call = "onFrameEnd"
                  /\ before = "escape" => after = "in_frame"]_vars

\* a delimiter has followed the escape marker and the frame is still open
C11_Witness ==
    /\ ListensOnRX("pm")
    /\ Len(stream) = 3
    /\ \A k \in 1..3 : stream[k].ptype = "FRAME" /\ stream[k].rxtx = RX
    /\ [k \in 1..3 |-> stream[k].value] = <<END, ESC, END>>
    /\ pmDecoder.slipStatus = "in_frame"
    /\ log.pm[Len(log.pm)].call = "onError"

---------------------------------------------------------------------------
(* C12: in every frame that has ended with its eight header bytes in, the  *)
(* data annotation ends at the start of the closing delimiter, starts at   *)
(* the start of the first data byte when there is one, and begins after    *)
(* the end of the checksum/value annotation of the frame, with or without  *)
(* a data byte.                                                            *)
C12_DataRegion ==
    \A d \in Directions : \A i \in FrameStarts(d) :
        LET A == FrameAnns(d, i)
            D == FrameData(d, i)
            j == FrameEndOf(d, i)
        IN  (j # 0 /\ Len(D) >= 8 /\ Len(A) = 5) =>
                /\ AnnClass(A[5]) = d \o "-data"
                /\ A[5].es = log[d][j].ss
                /\ Len(D) >= 9 => A[5].ss = D[9].ss
                /\ A[5].ss > A[4].es

---------------------------------------------------------------------------
\* how many annotations of A are of one of the classes
CountClass(A, classes) ==
    Cardinality({k \in 1..Len(A) : AnnClass(A[k]) \in classes})

(* C13: a frame has a size annotation exactly when its fourth byte (the    *)
(* second size byte) is in, a checksum/value annotation exactly when its   *)
(* eighth byte (the fourth checksum/value byte) is in, and a data          *)
(* annotation exactly when it has ended with its eight header bytes in: a  *)
(* frame that ends or stands inside a field has no annotation of that      *)
(* field, and one that ends before the eighth byte has no data annotation. *)
C13_FullFieldsOnly ==
    \A d \in Directions : \A i \in FrameStarts(d) :
        LET A == FrameAnns(d, i)
            D == FrameData(d, i)
            ended == FrameEndOf(d, i) # 0
        IN  /\ CountClass(A, {d \o "-size"}) = IF Len(D) >= 4 THEN 1 ELSE 0
            /\ CountClass(A, {d \o "-checksum", d \o "-value"}) =
                   IF Len(D) >= 8 THEN 1 ELSE 0
            /\ CountClass(A, {d \o "-data"}) =
                   IF Len(D) >= 8 /\ ended THEN 1 ELSE 0

\* a frame has ended after its first size byte, and one after its third
\* checksum byte
C13_Witness ==
    /\ PlanDone
    /\ plan[1] = <<END, 0, 2, 5, END>> \o Frame(<<0, 2, 5, 0, 170, 187, 204>>)
    /\ Len(RowOf(out, "pm")) = 5
    /\ pmDecoder.status = "checksum"
    /\ pmDecoder.slipStatus = "idle"

---------------------------------------------------------------------------
\* the descriptor the command byte of a frame with data calls D selects
\* (None when the byte is not in, or is no opcode of the table)
DescriptorOf(D) ==
    IF Len(D) >= 2 /\ D[2].value \in DOMAIN commandTable
    THEN <<D[2].value>> ELSE <<>>

(* C14: the data annotation put at the end of a frame carries the payload  *)
(* description ("Input") of the table entry of that frame's own command    *)
(* byte, and the plain label "Data" when that byte is no opcode of the     *)
(* table; while a frame is received the remembered descriptor is the one   *)
(* of its own command byte, and None before that byte is in, whatever the  *)
(* frames before have resolved.                                            *)
C14_DataLabel ==
    \A d \in Directions : \A i \in FrameStarts(d) :
        LET A == FrameAnns(d, i)
            D == FrameData(d, i)
            cmd == DescriptorOf(D)
        IN  /\ Receiving(d, i) => DecoderOf(d).lastCmd = cmd
            /\ (FrameEndOf(d, i) # 0 /\ Len(D) >= 8) =>
                   /\ Len(A) >= 1
                   /\ AnnClass(A[Len(A)]) = d \o "-data"
                   /\ A[Len(A)].message =
                          IF cmd # <<>>
                          THEN <<"Data: " \o commandTable[cmd[1]].Input, "Data">>
                          ELSE <<"Data">>

\* a response frame with opcode 0xFF and no data byte has ended, after a
\* frame that resolved opcode 0x02 and was cut in its checksum field
C14_Witness ==
    /\ PlanDone
    /\ plan[1] = <<END, 0, 2, 5, 0, 170, 187, END>>
                     \o Frame(<<1, 255, 5, 0, 170, 187, 204, 221>>)
    /\ Len(RowOf(out, "pm")) = 8
    /\ RowOf(out, "pm")[8].message = <<"Data">>
    /\ pmDecoder.lastCmd = <<>>

---------------------------------------------------------------------------
\* a sequence of packets or annotations with every offset moved by delta
Moved(s, delta) ==
    [j \in 1..Len(s) |-> [s[j] EXCEPT !.ss = @ + delta, !.es = @ + delta]]

\* the packets handed to direction d from offset t on
PacketsFrom(d, t) ==
    SelectSeq(stream, LAMBDA p : Routed(p, ChannelOf(d)) /\ p.ss >= t)

(* C15: whatever was decoded before a frame starts (frames cut inside the  *)
(* size or the checksum/value field included), the annotations a decoder   *)
(* puts from that frame's opening delimiter on are those a newly           *)
(* constructed decoder puts for the same bytes, with the same classes and  *)
(* messages and the same ranges relative to the opening delimiter; so any  *)
(* two prefixes that leave the decoder idle give the same annotations for  *)
(* the same following frame.                                               *)
C15_DecodedFresh ==
    \A d \in Directions : \A i \in FrameStarts(d) :
        LET t == log[d][i].ss
            row == RowOf(out, d)
            here == SubSeq(row, log[d][i].nout + 1, Len(row))
            fresh == Alone(d, Moved(PacketsFrom(d, t), 0 - t))
        IN  /\ ~ fresh.raised
            /\ here = Moved(fresh.out, t)

\* a whole frame with a data byte has been decoded after a frame that was
\* cut inside its size field
C15_Witness ==
    /\ PlanDone
    /\ plan[1] = <<END, 0, 2, 5, END>> \o Frame(<<1, 2, 5, 0, 170, 187, 204, 221, 17>>)
    /\ Len(RowOf(out, "pm")) = 7
    /\ pmDecoder.lastStatus = "data"
    /\ pmDecoder.slipStatus = "idle"

---------------------------------------------------------------------------
\* the packets handed to direction d so far, in order
PacketsOf(d) == PacketsFrom(d, 0)

(* C16: a byte handed to a decoder in escape makes exactly one callback:   *)
(* onData with 0xC0 for 0xDC, onData with 0xDB for 0xDD, onError for any   *)
(* other byte; the callback's range starts where the packet before, the    *)
(* escape marker 0xDB taken in in_frame, starts and ends where this byte   *)
(* ends; and the escape marker itself makes no callback.                   *)
C16_EscapeRanges ==
    [][\A d \in Directions :
          Routed(LastPacket, ChannelOf(d)) =>
              LET before == DecoderOf(d).slipStatus
                  value == LastPacket.value
                  mine == PacketsOf(d)
              IN  /\ (before = "in_frame" /\ value = ESC) =>
                         /\ log'[d] = log[d]
                         /\ DecoderAfter(d).slipStatus = "escape"
                  /\ before = "escape" =>
                         /\ Len(mine) >= 1
                         /\ mine[Len(mine)].value = ESC
                         /\ OneCall(d)
                         /\ LastCall(d).ss = mine[Len(mine)].ss
                         /\ LastCall(d).es = LastPacket.es
                         /\ IF value = ESC_END
                            THEN LastCall(d).call = "onData" /\ LastCall(d).value = END
                            ELSE IF value = ESC_ESC
                            THEN LastCall(d).call = "onData" /\ LastCall(d).value = ESC
                            ELSE /\ LastCall(d).call = "onError"
                                 /\ LastCall(d).message =
                                        "Unexpected escape value: 0x" \o Hex2(value)]_vars

\* the pair 0xDB 0xDD has been decoded inside a frame that started late
C16_Witness ==
    /\ ListensOnRX("pm")
    /\ Len(stream) = 4
    /\ \A k \in 1..4 : stream[k].ptype = "FRAME" /\ stream[k].rxtx = RX
    /\ [k \in 1..4 |-> stream[k].value] = <<0, END, ESC, ESC_ESC>>
    /\ Len(log.pm) = 3
    /\ log.pm[3].call = "onData" /\ log.pm[3].value = ESC
    /\ log.pm[3].ss = stream[3].ss /\ log.pm[3].es = stream[4].es

---------------------------------------------------------------------------
\* the ranges of the annotations of a row
Ranges(row) == [k \in 1..Len(row) |-> <<row[k].ss, row[k].es>>]

\* the FRAME packets of the run that came on a channel
OnChannelSoFar(channel) ==
    SelectSeq(stream, LAMBDA p : p.ptype = "FRAME"
                                 /\ rxtx_channels[p.rxtx + 1] = channel)

(* C17: with both directions on one channel, after every packet each       *)
(* decoder is where a decoder on its own is after the packets of that      *)
(* channel alone (every byte of the channel has reached both, no byte of   *)
(* the other channel has reached either); the two decoders agree in        *)
(* slipStatus, the escape start, status, lastStatus, segmentStart, acc,    *)
(* count and lastCmd; they have made the same callbacks; and their rows    *)
(* hold equally many annotations with the same ranges.                     *)
C17_SharedChannel ==
    options.pm_channel = options.mp_channel =>
        /\ \A d \in Directions :
               LET alone == Alone(d, OnChannelSoFar(options.pm_channel))
               IN  DecoderOf(d) = alone.self /\ log[d] = alone.log
        /\ mpDecoder = [pmDecoder EXCEPT !.direction = "mp"]
        /\ log.pm = log.mp
        /\ Ranges(RowOf(out, "pm")) = Ranges(RowOf(out, "mp"))

\* a whole frame has come on the shared channel and bytes on the other
C17_Witness ==
    /\ options.pm_channel = options.mp_channel
    /\ Len(OnChannelSoFar(options.pm_channel)) = 11
    /\ Len(stream) >= 13
    /\ pmDecoder.status = "data" /\ mpDecoder.status = "data"
    /\ pmDecoder.lastCmd = <<2>> /\ mpDecoder.lastCmd = <<2>>
    /\ Len(RowOf(out, "pm")) = 5 /\ Len(RowOf(out, "mp")) = 5

---------------------------------------------------------------------------
\* the step handed direction d a byte that reached onData in status "data"
DataStep(d) ==
    /\ Routed(LastPacket, ChannelOf(d))
    /\ DecoderOf(d).status = "data"
    /\ OneCall(d)
    /\ LastCall(d).call = "onData"

\* the step took direction d out of status "data", by onFrameStart alone
LeavesDataByFrameStart(d) ==
    (DecoderOf(d).status = "data" /\ DecoderAfter(d).status # "data") =>
        /\ OneCall(d)
        /\ LastCall(d).call = "onFrameStart"
        /\ DecoderAfter(d).status = "dir"

(* C18 as stated: every data byte that arrives in status "data" puts no    *)
(* annotation and leaves status, lastCmd and segmentStart as they were,    *)
(* and status "data" is left through onFrameStart alone.                   *)
C18_StartUnchanged ==
    [][\A d \in Directions :
          /\ DataStep(d) =>
                 /\ RowOf(out', d) = RowOf(out, d)
                 /\ DecoderAfter(d).status = "data"
                 /\ DecoderAfter(d).lastCmd = DecoderOf(d).lastCmd
                 /\ DecoderAfter(d).segmentStart = DecoderOf(d).segmentStart
          /\ LeavesDataByFrameStart(d)]_vars

(* C18, amended: every data byte that arrives in status "data" puts no     *)
(* annotation and leaves status and lastCmd as they were; the first of     *)
(* them sets segmentStart to its own start offset (until then segmentStart *)
(* is the start of the checksum/value field) and every later one leaves    *)
(* segmentStart as it was; status "data" is left through onFrameStart      *)
(* alone.                                                                  *)
C18_DataAbsorbed ==
    [][\A d \in Directions :
          /\ DataStep(d) =>
                 /\ RowOf(out', d) = RowOf(out, d)
                 /\ DecoderAfter(d).status = "data"
                 /\ DecoderAfter(d).lastCmd = DecoderOf(d).lastCmd
                 /\ DecoderAfter(d).segmentStart =
                        IF DecoderOf(d).lastStatus = "data"
                        THEN DecoderOf(d).segmentStart
                        ELSE LastCall(d).ss
          /\ LeavesDataByFrameStart(d)]_vars

\* the second data byte of a frame, an escaped 0xC0, has been taken in
C18_Witness ==
    /\ plan[1] = Frame(<<0, 2, 5, 0, 170, 187, 204, 221, 17, END>>)
    /\ Len(stream) = 12
    /\ pmDecoder.status = "data" /\ pmDecoder.lastStatus = "data"
    /\ pmDecoder.count = 1
    /\ pmDecoder.segmentStart = stream[10].ss
    /\ pmDecoder.lastCmd = <<2>>
    /\ Len(RowOf(out, "pm")) = 4

---------------------------------------------------------------------------
(* C19: for every stream handed to a newly constructed decoder: no         *)
(* attribute is read before it is assigned (no handler raises); every      *)
(* onData and onFrameEnd call comes after an onFrameStart call; until the  *)
(* first onFrameStart the decoder is as the constructor left it, idle,     *)
(* with status "cmd" and none of lastCmd, segmentStart, count, acc         *)
(* assigned; from then on lastCmd is assigned, and segmentStart, count and *)
(* acc are assigned once a byte of the frame is in; and the first byte of  *)
(* every frame is annotated as the direction byte (or as an invalid        *)
(* direction), never as a command.                                         *)
C19_StartsWithFrameStart ==
    /\ ~raised
    /\ \A d \in Directions :
           LET self == DecoderOf(d)
           IN  /\ \A j \in 1..Len(log[d]) :
                      log[d][j].call \in {"onData", "onFrameEnd"} =>
                          \E i \in 1..(j - 1) : log[d][i].call = "onFrameStart"
               /\ FrameStarts(d) = {} =>
                      /\ self.slipStatus = "idle"
                      /\ self.status = "cmd" /\ self.lastStatus = ""
                      /\ self.assigned = {}
                      /\ RowOf(out, d) = <<>>
               /\ FrameStarts(d) # {} => "lastCmd" \in self.assigned
               /\ \A i \in FrameStarts(d) :
                      LET A == FrameAnns(d, i)
                          D == FrameData(d, i)
                      IN  Len(D) >= 1 =>
                              /\ {"segmentStart", "count", "acc"}
                                     \subseteq self.assigned
                              /\ Len(A) >= 1
                              /\ A[1].ss = D[1].ss /\ A[1].es = D[1].es
                              /\ AnnClass(A[1]) =
                                     IF D[1].value \in {0, 1}
                                     THEN d \o "-dir" ELSE d \o "-error"
                              /\ A[1].message[1] =
                                     IF D[1].value = 0 THEN "DIR: REQ"
                                     ELSE IF D[1].value = 1 THEN "DIR: RES"
                                     ELSE "Invalid direction: 0x"
                                              \o Hex2(D[1].value)

\* a whole frame with two data bytes has been decoded to its end, after
\* a byte outside a frame
C19_Witness ==
    /\ PlanDone
    /\ plan[1] = <<65>> \o Frame(<<0, 2, 5, 0, 170, 187, 204, 221, 17, END>>)
    /\ log.pm[1].call = "onError"
    /\ log.pm[2].call = "onFrameStart"
    /\ log.pm[Len(log.pm)].call = "onFrameEnd"
    /\ Len(RowOf(out, "pm")) = 5
    /\ pmDecoder.assigned = {"lastCmd", "segmentStart", "count", "acc"}
    /\ ~raised

=============================================================================
